---- MODULE Spec2Model ----
(***************************************************************************)
(* RoboUber fare matching: the Dispatcher's auction (dispatcher.py), the   *)
(* Taxi's message inbox, per-minute behaviour, bid policy and A* route     *)
(* planner (taxi.py).                                                      *)
(*                                                                         *)
(* The NetWorld (networld.py) is an external collaborator: it owns the     *)
(* clock (simTime), the nodes and the travel times, and it is the caller   *)
(* of the Dispatcher's public entry points.  Its calls are the inputs of   *)
(* the actions below.                                                      *)
(***************************************************************************)
EXTENDS Integers, Sequences, FiniteSets, TLC

(***************************************************************************)
(* Bounds of the model.                                                    *)
(***************************************************************************)
\* the world generates at most MaxAnnounce fares
MaxAnnounce == 2
\* the fairness memory records at most MaxHist timestamps over all taxis
MaxHist == 3
\* the same two bounds where one origin is served and only the taxi a fare
\* was allocated to completes it
MaxFairAnnounce == 4
MaxFairHist == 5
\* the recorded distance of an edge of the taxi's map is at most MaxDist
MaxDist == 4
\* the world runs MaxTime minutes
MaxTime == 5
\* the world generates at most MaxOffers fares while the taxis tick
MaxOffers == 2
MaxCallTime == 2
MaxStep == 2

(***************************************************************************)
(* Program constants.                                                      *)
(***************************************************************************)
\* self._assign_window_minutes = 180
assign_window_minutes == 180
\* deque(maxlen=64)
assign_history_maxlen == 64

\* Python's None where the other values are taxi numbers (fare["allocated"])
NoTaxi == 0
\* Python's None where the other values are prices or amounts
NoPrice == -1000

\* taxi numbers, as RoboUber.runRoboUber creates them
Taxis == {100, 101}

(***************************************************************************)
(* The world: nodes are (x,y) pairs on a grid of streets.                  *)
(***************************************************************************)
WorldNodes == (0..3) \X (0..4)
\* Taxi.currentLocation of a taxi with _loc None
Unplaced == <<-1, -1>>

\* where the world puts each taxi when it comes on duty: taxi 100 stands
\* 3 minutes from (3,0), taxi 101 stands 5 minutes from it; both stand
\* 3 minutes from (2,1)
Placement == [t \in Taxis |-> IF t = 100 THEN <<0, 0>> ELSE <<0, 2>>]
Origins == {<<3, 0>>, <<2, 1>>}
Destinations == {<<3, 4>>, <<0, 4>>}
Prices == {NoPrice, 50}
MaxWaits == {60}
ShortWaits == {2}
Amounts == {NoPrice, -9}

Abs(n) == IF n < 0 THEN -n ELSE n

\* a maximum that forgets its first argument
MaxSecond(a, b) == b

Max(a, b) == IF a >= b THEN a ELSE b

\* world.getNode(x, y) is not None
HasNode(xy) == xy \in WorldNodes

\* world.travelTime(a, b): minutes from node a to node b along the grid
travelTime(a, b) == Abs(a[1] - b[1]) + Abs(a[2] - b[2])

VARIABLES
    simTime,          \* world.simTime
    fareBoard,        \* Dispatcher._fareBoard, in insertion order
    bids,             \* Dispatcher._bids: origin -> set of taxi numbers
    assign_history,   \* Dispatcher._assign_history: taxi -> timestamps
    revenue,          \* 9 * Dispatcher._revenue
    availableFares,   \* Taxi._availableFares per taxi, in insertion order
    account,          \* Taxi._account per taxi
    loc,              \* Taxi.currentLocation per taxi
    allocTimes,       \* history: the times at which each taxi was allocated a fare
    announced,        \* history: the number of fares put on the board so far
    last,             \* history: the last call and the locals of its allocation pass
    map,              \* Taxi._map: node -> {neighbour: distance}
    planned,          \* the last call of Taxi._planPath and the path it returned
    unreachable,      \* the taxis whose recvMsg raises
    onDuty,           \* Taxi.onDuty per taxi
    offDutyTime,      \* Taxi._offDutyTime per taxi
    passenger,        \* Taxi._passenger per taxi
    path,             \* Taxi._path per taxi
    phase             \* the world's minute per taxi: 0 to drive, 1 to tick, 2 done

vars == <<simTime, fareBoard, bids, assign_history, revenue, availableFares,
          account, loc, allocTimes, announced, last, map, planned,
          unreachable, onDuty, offDutyTime, passenger, path, phase>>

\* the taxi's duty, load and route, and the world's schedule
taxiVars == <<onDuty, offDutyTime, passenger, path, phase>>

(***************************************************************************)
(* Sequences as insertion-ordered dicts.                                   *)
(***************************************************************************)
RECURSIVE SeqFilterOut(_, _)
\* s without the elements at the positions in drop
SeqFilterOut(s, drop) ==
    IF s = <<>> THEN <<>>
    ELSE LET n == Len(s)
             front == SeqFilterOut(SubSeq(s, 1, n - 1), drop)
         IN IF n \in drop THEN front ELSE Append(front, s[n])

Indices(s) == 1..Len(s)

(***************************************************************************)
(* Taxi.recvMsg                                                            *)
(***************************************************************************)
\* FareInfo(destination, price), keyed by (time, origin)
FareInfo(time, origin, destination, price) ==
    [time |-> time, origin |-> origin, destination |-> destination,
     price |-> price, bid |-> 0, allocated |-> FALSE]

\* recvMsg(FARE_ADVICE, origin, destination, price)
RecvFareAdvice(offers, now, origin, destination, price) ==
    LET same == {i \in Indices(offers) :
                    offers[i].time = now /\ offers[i].origin = origin}
        info == FareInfo(now, origin, destination, price)
    IN IF same = {} THEN Append(offers, info)
       ELSE [i \in Indices(offers) |-> IF i \in same THEN info ELSE offers[i]]

\* recvMsg(FARE_ALLOC, origin, destination)
RecvFareAlloc(offers, origin, destination) ==
    LET match == {i \in Indices(offers) :
                    offers[i].origin = origin /\ offers[i].destination = destination}
    IN IF match = {} THEN offers
       ELSE LET first == CHOOSE i \in match : \A j \in match : i <= j
            IN [offers EXCEPT ![first].allocated = TRUE]

\* recvMsg(FARE_CANCEL, origin)
RecvFareCancel(offers, origin) ==
    LET match == {i \in Indices(offers) : offers[i].origin = origin}
    IN IF match = {} THEN offers
       ELSE LET first == CHOOSE i \in match : \A j \in match : i <= j
            IN SeqFilterOut(offers, {first})

\* recvMsg(FARE_PAY, amount): None + int raises, and the Dispatcher swallows it
RecvFarePay(acct, amount) ==
    IF amount = NoPrice THEN acct ELSE acct + amount

(***************************************************************************)
(* Dispatcher helpers                                                      *)
(***************************************************************************)
FareKey(f) == <<f.call_time, f.origin, f.destination>>

BoardKeys(board) == {FareKey(board[i]) : i \in Indices(board)}

\* announceFare without its "if key in self._fareBoard: return"
KeyOnBoardNever(board, key) == FALSE

\* key in self._fareBoard
KeyOnBoard(board, key) == key \in BoardKeys(board)

\* deque.append with maxlen
DequeAppend(dq, x) ==
    IF Len(dq) >= assign_history_maxlen THEN Append(Tail(dq), x) ELSE Append(dq, x)

\* a dispatcher that books the whole amount
RevenueAddWhole(amount) == IF amount = NoPrice THEN 0 ELSE 9 * Max(0, amount)

\* add = 0.0 if amount is None else max(0.0, float(amount)) / 9.0, in ninths
RevenueAdd(amount) == IF amount = NoPrice THEN 0 ELSE Max(0, amount)

\* _mark_alloc
MarkAlloc(hist, t, now) == [hist EXCEPT ![t] = DequeAppend(@, now)]

\* _jobs_in_window
JobsInWindow(hist, t, now) ==
    Cardinality({i \in Indices(hist[t]) : hist[t][i] >= now - assign_window_minutes})

\* _fairness_penalty
FairnessPenalty(hist, acct, t, now) ==
    2 * JobsInWindow(hist, t, now) - (IF acct[t] < 0 THEN 1 ELSE 0)

\* _eta_minutes is finite
\* an estimate that is finite for every taxi, placed or not
EtaDefinedAlways(t, origin) == TRUE

EtaDefined(t, origin) == HasNode(loc[t]) /\ HasNode(origin)

\* _eta_minutes, where finite
EtaMinutes(t, origin) == travelTime(loc[t], origin)

\* _score, where finite
Score(hist, acct, t, origin, now) ==
    EtaMinutes(t, origin) + FairnessPenalty(hist, acct, t, now)

\* _purge_origin, the fare board
PurgeOriginBoard(board, origin) ==
    SeqFilterOut(board, {i \in Indices(board) : board[i].origin = origin})

\* _purge_exact, the fare board
PurgeExactBoard(board, origin, destination) ==
    SeqFilterOut(board, {i \in Indices(board) :
        board[i].origin = origin /\ board[i].destination = destination})

\* a purge that forgets the bid registry
PurgeBidsKeep(b, origin) == b

\* del self._bids[origin_xy]
PurgeBids(b, origin) == [o \in (DOMAIN b) \ {origin} |-> b[o]]

\* self._bids[(ox, oy)].add(bidder), on a defaultdict(set)
\* a registry that keeps only the latest bidder at an origin
BidsAddAlone(b, origin, t) ==
    [o \in (DOMAIN b) \cup {origin} |-> IF o = origin THEN {t} ELSE b[o]]

BidsAdd(b, origin, t) ==
    [o \in (DOMAIN b) \cup {origin} |->
        IF o = origin
        THEN (IF origin \in DOMAIN b THEN b[origin] ELSE {}) \cup {t}
        ELSE b[o]]

\* an allocation loop without its "allocated is not None: continue"
UnallocatedOrNot(board, origin) ==
    {i \in Indices(board) : board[i].origin = origin}

\* the fares at this origin that the allocation loop does not skip
Unallocated(board, origin) ==
    {i \in Indices(board) : board[i].origin = origin /\ board[i].allocated = NoTaxi}

\* the first of them: latest call time first, insertion order among equal
\* call times (a stable sort of the board's insertion order)
\* the open fare at the origin that was called first
FirstCandidateOldest(board, origin) ==
    LET open == Unallocated(board, origin)
    IN CHOOSE i \in open : \A j \in open :
          \/ board[i].call_time < board[j].call_time
          \/ (board[i].call_time = board[j].call_time /\ i <= j)

FirstCandidate(board, origin) ==
    LET open == Unallocated(board, origin)
    IN CHOOSE i \in open : \A j \in open :
          \/ board[i].call_time > board[j].call_time
          \/ (board[i].call_time = board[j].call_time /\ i <= j)

\* scoring every known taxi instead of the bidders of this origin
ScoredAnyTaxi(b, origin) == {t \in Taxis : EtaDefined(t, origin)}

\* the bidders with a finite score
Scored(b, origin) == {t \in b[origin] : EtaDefined(t, origin)}

\* a sort in descending order of score
WinnersLast(b, hist, acct, origin, now) ==
    {w \in Scored(b, origin) : \A u \in Scored(b, origin) :
        Score(hist, acct, w, origin, now) >= Score(hist, acct, u, origin, now)}

\* scored[0][1] after the stable sort: a bidder of least score; which one
\* among equals is the iteration order of a Python set
Winners(b, hist, acct, origin, now) ==
    {w \in Scored(b, origin) : \A u \in Scored(b, origin) :
        Score(hist, acct, w, origin, now) <= Score(hist, acct, u, origin, now)}

NoKey == <<-1, Unplaced, Unplaced>>

\* Taxi(world, taxi_num, idle_loss, max_wait, on_duty_time, off_duty_time):
\* the duty times and the offer lifetime at their defaults; the idle-loss
\* allowance is a bound of the model, a few minutes instead of 256
onDutyTime == 0
maxFareWait == 50
dailyLoss == 3

\* self._passenger = None
NoFare == [origin |-> Unplaced, destination |-> Unplaced, price |-> NoPrice]

\* last: the call, its arguments, and what its allocation pass or purge did
\* (fresh: the key was new; winner, score: scored[0]; purged: len(to_del))
NoCall == [op |-> "none", origin |-> Unplaced, taxi |-> NoTaxi, key |-> NoKey,
           fresh |-> FALSE, winner |-> NoTaxi, score |-> 0, purged |-> 0,
           amount |-> NoPrice, failed |-> FALSE, reachable |-> FALSE,
           malformed |-> FALSE, events |-> <<>>, time |-> 0,
           entered |-> FALSE]

RECURSIVE SumLen(_, _)
SumLen(hist, ts) ==
    IF ts = {} THEN 0
    ELSE LET t == CHOOSE x \in ts : TRUE
         IN Len(hist[t]) + SumLen(hist, ts \ {t})

\* the fairness memory holds fewer than n timestamps
HistRoom(n) == SumLen(assign_history, Taxis) < n

(***************************************************************************)
(* Taxi._planPath: A* over the taxi's map                                  *)
(***************************************************************************)
\* the nodes of the planner's maps: three crossings of one street, so that
\* every straight-line distance is a whole number
PlanNodes == {<<0, 0>>, <<1, 0>>, <<3, 0>>}

\* math.hypot, where the result is a whole number
hypot(dx, dy) ==
    CHOOSE r \in 0..(Abs(dx) + Abs(dy)) : r * r = dx * dx + dy * dy

\* a heuristic that overestimates: twice the straight-line distance
heuristicTwice(a, b) == 2 * hypot(a[1] - b[1], a[2] - b[2])

\* heuristic(a, b) of _planPath
heuristic(a, b) == hypot(a[1] - b[1], a[2] - b[2])

\* self._map built from one recorded distance per ordered pair of nodes,
\* 0 for a pair without an edge
MapOf(w) ==
    [a \in PlanNodes |->
        [b \in {n \in PlanNodes \ {a} : w[<<a, n>>] > 0} |-> w[<<a, b>>]]]

Maps ==
    {MapOf(w) : w \in [{e \in PlanNodes \X PlanNodes : e[1] # e[2]} -> 0..MaxDist]}

\* a two-way street whose recorded distances are the straight-line distances
StreetMap ==
    MapOf([e \in {e \in PlanNodes \X PlanNodes : e[1] # e[2]} |->
              hypot(e[1][1] - e[2][1], e[1][2] - e[2][2])])

\* Python's order on (x, y) tuples
NodeLess(a, b) == a[1] < b[1] \/ (a[1] = b[1] /\ a[2] < b[2])

\* Python's order on the heap's (f, g, node) tuples
HeapLess(p, q) ==
    \/ p[1] < q[1]
    \/ p[1] = q[1] /\ p[2] < q[2]
    \/ p[1] = q[1] /\ p[2] = q[2] /\ NodeLess(p[3], q[3])

\* the tuple heapq.heappop returns
HeapTop(heap) == CHOOSE p \in heap : \A q \in heap \ {p} : HeapLess(p, q)

RECURSIVE AStarLoop(_, _, _, _, _, _)
\* the while loop of _planPath; its value is came_from at the loop's end
AStarLoop(m, destination, open_heap, came_from, g_score, closed) ==
    IF open_heap = {} THEN came_from
    ELSE LET top == HeapTop(open_heap)
             rest == open_heap \ {top}
             g_curr == top[2]
             current == top[3]
         IN IF current \in closed
            THEN AStarLoop(m, destination, rest, came_from, g_score, closed)
            ELSE IF current = destination THEN came_from
            ELSE LET better == {nbr \in DOMAIN m[current] :
                                   nbr \notin DOMAIN g_score
                                   \/ g_curr + m[current][nbr] < g_score[nbr]}
                     came1 == [n \in DOMAIN came_from \cup better |->
                                  IF n \in better THEN current ELSE came_from[n]]
                     g1 == [n \in DOMAIN g_score \cup better |->
                               IF n \in better THEN g_curr + m[current][n]
                               ELSE g_score[n]]
                     pushed == {<<g1[n] + heuristic(n, destination), g1[n], n>> :
                                   n \in better}
                 IN AStarLoop(m, destination, rest \cup pushed, came1, g1,
                              closed \cup {current})

RECURSIVE WalkBack(_, _, _)
\* the reconstruction loop of _planPath, from node back to origin
WalkBack(came_from, origin, node) ==
    IF node = origin THEN <<node>>
    ELSE Append(WalkBack(came_from, origin, came_from[node]), node)

\* a planner that has no path for a taxi that is already there
AlreadyThereEmpty(origin) == <<>>

\* if origin == destination: return [origin]
AlreadyThere(origin) == <<origin>>

\* _planPath(origin, destination)
planPath(m, origin, destination) ==
    IF origin = destination THEN AlreadyThere(origin)
    ELSE IF origin \notin DOMAIN m \/ destination \notin DOMAIN m THEN <<>>
    ELSE LET came_from == AStarLoop(m, destination, {<<0, 0, origin>>}, <<>>,
                                    [n \in {origin} |-> 0], {})
         IN IF destination \notin DOMAIN came_from THEN <<>>
            ELSE WalkBack(came_from, origin, destination)

NoPlan == [called |-> FALSE, origin |-> Unplaced, destination |-> Unplaced,
           path |-> <<>>]

(***************************************************************************)
(* Init                                                                    *)
(***************************************************************************)
InitDispatch ==
    /\ simTime = 0
    /\ fareBoard = <<>>
    /\ bids = <<>>
    /\ assign_history = [t \in Taxis |-> <<>>]
    /\ revenue = 0
    /\ availableFares = [t \in Taxis |-> <<>>]
    /\ account = [t \in Taxis |-> 0]
    /\ loc = [t \in Taxis |-> Unplaced]
    /\ allocTimes = [t \in Taxis |-> <<>>]
    /\ announced = 0
    /\ last = NoCall
    /\ onDuty = [t \in Taxis |-> FALSE]
    /\ offDutyTime = [t \in Taxis |-> 0]
    /\ passenger = [t \in Taxis |-> NoFare]
    /\ path = [t \in Taxis |-> <<>>]
    /\ phase = [t \in Taxis |-> 0]

Init == InitDispatch /\ map = StreetMap /\ planned = NoPlan /\ unreachable = {}

(***************************************************************************)
(* Dispatcher.announceFare                                                 *)
(***************************************************************************)
\* an advisory that carries the price as announced, unknown or not
AdvisedRaw(price) == price

\* price=... if self._fareBoard[key]["price"] is not None else 0.0
Advised(price) == IF price = NoPrice THEN 0 ELSE price

Announce(call, call_time, origin, destination, price, max_wait) ==
    LET key == <<call_time, origin, destination>>
        fresh == ~KeyOnBoard(fareBoard, key)
        entry == [call_time |-> call_time, origin |-> origin,
                  destination |-> destination, price |-> price,
                  max_wait |-> max_wait, allocated |-> NoTaxi]
        advised == Advised(price)
    IN /\ last' = [call EXCEPT !.origin = origin, !.key = key, !.fresh = fresh]
       /\ announced' = IF fresh THEN announced + 1 ELSE announced
       /\ IF fresh
          THEN /\ fareBoard' = Append(fareBoard, entry)
               /\ availableFares' = [t \in Taxis |->
                     IF t \in unreachable THEN availableFares[t]
                     ELSE RecvFareAdvice(availableFares[t], simTime, origin,
                                         destination, advised)]
          ELSE UNCHANGED <<fareBoard, availableFares>>
       /\ UNCHANGED <<simTime, bids, assign_history, revenue, account, loc,
                      allocTimes, map, planned, unreachable, taxiVars>>

AnnounceFare(call_time, origin, destination, price, max_wait) ==
    Announce([NoCall EXCEPT !.op = "announceFare"], call_time, origin,
             destination, price, max_wait)

(***************************************************************************)
(* Dispatcher.newFare, called as newFare(world, origin, destination,       *)
(* call_time, price, max_wait)                                             *)
(***************************************************************************)
\* what the world may pass as a coordinate: a pair of integers, None, a
\* sequence of three numbers, or a pair of strings that are not numbers
Pair(xy) == [kind |-> "pair", xy |-> xy]
Missing == [kind |-> "none", xy |-> Unplaced]
Triple == [kind |-> "triple", xy |-> Unplaced]
Text == [kind |-> "text", xy |-> Unplaced]

\* int() of a string that is not a number raises ValueError
Raised == <<-2, -2>>

\* _xy_from
XyFrom(c) ==
    CASE c.kind = "none" -> Unplaced
      [] c.kind = "pair" -> c.xy
      [] c.kind = "text" -> Raised
      [] OTHER -> Unplaced

NewFare(origin, destination, call_time, price, max_wait) ==
    LET call == [NoCall EXCEPT !.op = "newFare",
                               !.malformed = origin.kind # "pair"
                                             \/ destination.kind # "pair"]
    IN IF XyFrom(origin) # Raised /\ XyFrom(destination) # Raised
       THEN Announce(call, call_time, XyFrom(origin), XyFrom(destination),
                     price, max_wait)
       ELSE \* the keyword fallbacks: no keyword was given
            Announce(call, 0, XyFrom(Missing), XyFrom(Missing), NoPrice, 60)

(***************************************************************************)
(* Dispatcher.receiveBid with _allocate_if_ready                           *)
(***************************************************************************)
\* a winner that stays in the bid set of the origin
BidsRetain(b, origin, winner) == b

\* self._bids[origin_xy].remove(winner)
BidsRemove(b, origin, winner) == [b EXCEPT ![origin] = @ \ {winner}]

ReceiveBid(origin, bidder) ==
    LET bids1 == BidsAdd(bids, origin, bidder)
        call == [NoCall EXCEPT !.op = "receiveBid", !.origin = origin,
                               !.taxi = bidder]
    IN /\ IF Unallocated(fareBoard, origin) = {} \/ Scored(bids1, origin) = {}
          THEN /\ bids' = bids1
               /\ last' = call
               /\ UNCHANGED <<fareBoard, assign_history, availableFares,
                              allocTimes>>
          ELSE \E winner \in Winners(bids1, assign_history, account, origin, simTime) :
               LET i == FirstCandidate(fareBoard, origin)
                   fare == fareBoard[i]
                   pass == [call EXCEPT
                        !.key = FareKey(fare), !.winner = winner,
                        !.score = Score(assign_history, account, winner, origin,
                                        simTime),
                        !.reachable = Scored(bids1, origin) \ unreachable # {}]
               IN IF winner \in unreachable
                  THEN \* recvMsg raises: the allocation is undone and the loop
                       \* goes on to the next fare at this origin, where the
                       \* same bidders give the same winner
                       /\ bids' = bids1
                       /\ last' = [pass EXCEPT !.failed = TRUE]
                       /\ UNCHANGED <<fareBoard, assign_history, availableFares,
                                      allocTimes>>
                  ELSE /\ fareBoard' = [fareBoard EXCEPT ![i].allocated = winner]
                       /\ availableFares' = [availableFares EXCEPT ![winner] =
                             RecvFareAlloc(@, fare.origin, fare.destination)]
                       /\ assign_history' = MarkAlloc(assign_history, winner, simTime)
                       /\ allocTimes' = [allocTimes EXCEPT ![winner] = Append(@, simTime)]
                       /\ bids' = BidsRemove(bids1, origin, winner)
                       /\ last' = pass
       /\ UNCHANGED <<simTime, revenue, account, loc, announced, map, planned,
                      unreachable, taxiVars>>

(***************************************************************************)
(* Dispatcher.notifyFareCancelled                                          *)
(***************************************************************************)
NotifyFareCancelled(origin) ==
    /\ availableFares' = [t \in Taxis |->
          IF t \in unreachable THEN availableFares[t]
          ELSE RecvFareCancel(availableFares[t], origin)]
    /\ fareBoard' = PurgeOriginBoard(fareBoard, origin)
    /\ bids' = PurgeBids(bids, origin)
    /\ last' = [NoCall EXCEPT !.op = "notifyFareCancelled", !.origin = origin,
                              !.purged = Len(fareBoard) - Len(fareBoard')]
    /\ UNCHANGED <<simTime, assign_history, revenue, account, loc, allocTimes,
                   announced, map, planned, unreachable, taxiVars>>

(***************************************************************************)
(* Dispatcher.notifyFareCompleted                                          *)
(***************************************************************************)
NotifyFareCompleted(t, origin, destination, amount) ==
    /\ revenue' = revenue + RevenueAdd(amount)
    /\ assign_history' = MarkAlloc(assign_history, t, simTime)
    /\ account' = [account EXCEPT ![t] =
          IF t \in unreachable THEN @ ELSE RecvFarePay(@, amount)]
    /\ fareBoard' = PurgeExactBoard(fareBoard, origin, destination)
    /\ bids' = PurgeBids(bids, origin)
    /\ last' = [NoCall EXCEPT !.op = "notifyFareCompleted", !.origin = origin,
                              !.taxi = t, !.amount = amount,
                              !.key = <<-1, origin, destination>>,
                              !.purged = Len(fareBoard) - Len(fareBoard')]
    /\ UNCHANGED <<simTime, availableFares, loc, allocTimes, announced, map,
                   planned, unreachable, taxiVars>>

(***************************************************************************)
(* Taxi.drive: the taxi occupies the node the world admits it to           *)
(***************************************************************************)
Drive(t) ==
    /\ loc[t] = Unplaced
    /\ loc' = [loc EXCEPT ![t] = Placement[t]]
    /\ UNCHANGED <<simTime, fareBoard, bids, assign_history, revenue,
                   availableFares, account, allocTimes, announced, last, map,
                   planned, unreachable, taxiVars>>

\* the world announces the fares it generates, and may announce again one
\* that is on the board
MayAnnounce(n, origin, destination) ==
    announced < n \/ KeyOnBoard(fareBoard, <<simTime, origin, destination>>)

\* the calls the world makes, in any order, with their arguments drawn from
\* the given sets
Calls(OS, DS, PS, AS) ==
    \/ \E t \in Taxis : Drive(t)
    \/ \E o \in OS, d \in DS, p \in PS, mw \in MaxWaits :
          MayAnnounce(MaxAnnounce, o, d) /\ AnnounceFare(simTime, o, d, p, mw)
    \/ \E o \in OS, t \in Taxis : HistRoom(MaxHist) /\ ReceiveBid(o, t)
    \/ \E o \in OS : NotifyFareCancelled(o)
    \/ \E t \in Taxis, o \in OS, d \in DS, a \in AS :
          HistRoom(MaxHist) /\ NotifyFareCompleted(t, o, d, a)

\* fares at two origins, all to one destination at one price, each paid at
\* one amount
Next == Calls(Origins, {<<3, 4>>}, {50}, {-9})

Spec == Init /\ [][Next]_vars

\* fares at one origin, to two destinations at two prices, paid at an amount
\* or at none
NextOrigin == Calls({<<3, 0>>}, Destinations, Prices, Amounts)

SpecOrigin == Init /\ [][NextOrigin]_vars

\* the board holds a fare that was allocated to the taxi
Carries(t, origin, destination) ==
    \E i \in Indices(fareBoard) :
        /\ fareBoard[i].origin = origin
        /\ fareBoard[i].destination = destination
        /\ fareBoard[i].allocated = t

\* fares at the origin that both taxis reach in the same time; a fare is
\* completed by the taxi it was allocated to
NextFair ==
    \/ \E t \in Taxis : Drive(t)
    \/ \E mw \in MaxWaits :
          /\ MayAnnounce(MaxFairAnnounce, <<2, 1>>, <<3, 4>>)
          /\ AnnounceFare(simTime, <<2, 1>>, <<3, 4>>, 50, mw)
    \/ \E t \in Taxis : HistRoom(MaxFairHist) /\ ReceiveBid(<<2, 1>>, t)
    \/ NotifyFareCancelled(<<2, 1>>)
    \/ \E t \in Taxis, a \in {18, -9} :
          /\ HistRoom(MaxFairHist)
          /\ Carries(t, <<2, 1>>, <<3, 4>>)
          /\ NotifyFareCompleted(t, <<2, 1>>, <<3, 4>>, a)

SpecFair == Init /\ [][NextFair]_vars

\* fares at one origin, completed at a positive, a zero, a negative or a
\* missing amount
NextRevenue == Calls({<<3, 0>>}, {<<3, 4>>}, {50}, {NoPrice, 0, -9, 18})

SpecRevenue == Init /\ [][NextRevenue]_vars

\* some taxis cannot be notified
InitFaults ==
    /\ InitDispatch /\ map = StreetMap /\ planned = NoPlan
    /\ unreachable \in SUBSET Taxis

CoordInputs == {Pair(<<3, 0>>), Missing, Triple, Text}

\* the calls of the world, and fares that arrive through newFare with a
\* coordinate that may be malformed
NextFaults ==
    \/ Calls({<<3, 0>>}, {<<3, 4>>}, {50}, {-9})
    \/ \E o \in CoordInputs, mw \in MaxWaits :
          /\ announced < MaxAnnounce
          /\ NewFare(o, Pair(<<3, 4>>), simTime, 50, mw)

SpecFaults == InitFaults /\ [][NextFaults]_vars

(***************************************************************************)
(* Taxi.comeOnDuty                                                         *)
(***************************************************************************)
\* a taxi whose balance is reset whenever it comes on duty
ResetBalanceAlways(acct) == dailyLoss

\* if self._account <= 0: self._account = self._dailyLoss
ResetBalance(acct) == IF acct <= 0 THEN dailyLoss ELSE acct

\* the test that lets the taxi on duty
MayComeOnDuty(t, time) ==
    offDutyTime[t] = 0 \/ (time >= onDutyTime /\ time < offDutyTime[t])

ComeOnDuty(t, time) ==
    /\ IF MayComeOnDuty(t, time)
       THEN /\ account' = [account EXCEPT ![t] = ResetBalance(@)]
            /\ onDuty' = [onDuty EXCEPT ![t] = TRUE]
       ELSE UNCHANGED <<account, onDuty>>
    /\ last' = [NoCall EXCEPT !.op = "comeOnDuty", !.taxi = t, !.time = time,
                              !.entered = MayComeOnDuty(t, time)]
    /\ UNCHANGED <<simTime, fareBoard, bids, assign_history, revenue,
                   availableFares, loc, allocTimes, announced, map, planned,
                   unreachable, offDutyTime, passenger, path, phase>>

(***************************************************************************)
(* Taxi.drive along the path: the taxi leaves the node it is at and        *)
(* arrives at the next node of its path                                    *)
(***************************************************************************)
\* a taxi that turns towards any node, on its map or not
CanTurnAlways(m, here, next) == TRUE

\* not (self._path[0] not in self._map[self._loc.index])
CanTurn(m, here, next) == next \in DOMAIN m[here]

\* raise IndexError: the call is abandoned and the taxi is not driven on
DriveFault(t, rest) ==
    /\ path' = [path EXCEPT ![t] = rest]
    /\ phase' = [phase EXCEPT ![t] = 3]
    /\ last' = [NoCall EXCEPT !.op = "drive", !.taxi = t, !.failed = TRUE,
                              !.events = <<"IndexError">>]
    /\ UNCHANGED loc

DriveOn(t) ==
    LET rest == IF path[t] # <<>> /\ Head(path[t]) = loc[t]
                THEN Tail(path[t]) ELSE path[t]
    IN /\ IF path[t] # <<>> /\ loc[t] \notin DOMAIN map
          THEN DriveFault(t, path[t])
          ELSE IF rest = <<>>
          THEN /\ path' = [path EXCEPT ![t] = rest]
               /\ phase' = [phase EXCEPT ![t] = 1]
               /\ UNCHANGED <<loc, last>>
          ELSE IF ~CanTurn(map, loc[t], Head(rest))
          THEN DriveFault(t, rest)
          ELSE /\ loc' = [loc EXCEPT ![t] = Head(rest)]
               /\ path' = [path EXCEPT ![t] = Tail(rest)]
               /\ phase' = [phase EXCEPT ![t] = 1]
               /\ UNCHANGED last
       /\ UNCHANGED <<simTime, fareBoard, bids, assign_history, revenue,
                      availableFares, account, allocTimes, announced, map,
                      planned, unreachable, onDuty, offDutyTime, passenger>>

(***************************************************************************)
(* Taxi.clockTick, with the calls it makes into the world:                 *)
(* transmitFareBid (Dispatcher.receiveBid), pickupFare, and dropoffFare    *)
(* (Dispatcher.notifyFareCompleted)                                        *)
(***************************************************************************)
\* the state a tick works on, and the events of the tick in order
TickState ==
    [fareBoard |-> fareBoard, bids |-> bids, assign_history |-> assign_history,
     revenue |-> revenue, availableFares |-> availableFares,
     account |-> account, allocTimes |-> allocTimes, onDuty |-> onDuty,
     offDutyTime |-> offDutyTime, passenger |-> passenger, path |-> path,
     events |-> <<>>, faresToRemove |-> {}]

\* world.transmitFareBid(origin, taxi): Dispatcher.receiveBid and its
\* allocation pass; one outcome per winner the pass may pick
Bid(s, origin, bidder) ==
    LET bids1 == BidsAdd(s.bids, origin, bidder)
        s1 == [s EXCEPT !.bids = bids1, !.events = Append(@, "bid")]
    IN IF Unallocated(s.fareBoard, origin) = {} \/ Scored(bids1, origin) = {}
       THEN {s1}
       ELSE {IF winner \in unreachable THEN s1
             ELSE LET i == FirstCandidate(s.fareBoard, origin)
                      fare == s.fareBoard[i]
                  IN [s1 EXCEPT
                        !.fareBoard[i].allocated = winner,
                        !.availableFares[winner] =
                            RecvFareAlloc(@, fare.origin, fare.destination),
                        !.assign_history = MarkAlloc(@, winner, simTime),
                        !.allocTimes[winner] = Append(@, simTime),
                        !.bids[origin] = @ \ {winner},
                        !.events = IF winner = bidder
                                   THEN Append(@, "allocated") ELSE @]
             : winner \in Winners(bids1, s.assign_history, s.account, origin,
                                  simTime)}

\* node.dropoffFare succeeds at the passenger's destination; the world then
\* reports the payment: Dispatcher.notifyFareCompleted
Dropoff(s, t) ==
    LET p == s.passenger[t]
    IN [s EXCEPT
          !.passenger[t] = NoFare,
          !.revenue = @ + RevenueAdd(p.price),
          !.assign_history = MarkAlloc(@, t, simTime),
          !.account[t] = IF t \in unreachable THEN @ ELSE RecvFarePay(@, p.price),
          !.fareBoard = PurgeExactBoard(@, p.origin, p.destination),
          !.bids = PurgeBids(@, p.origin),
          !.events = Append(@, "dropoff")]

\* node.pickupFare: the fare that waits at this node for this taxi, if any
Waiting(s, t) ==
    {i \in Indices(s.fareBoard) :
        s.fareBoard[i].origin = loc[t] /\ s.fareBoard[i].allocated = t}

PickupFare(s, t) ==
    IF Waiting(s, t) = {} THEN NoFare
    ELSE LET i == CHOOSE i \in Waiting(s, t) : \A j \in Waiting(s, t) : i <= j
         IN [origin |-> s.fareBoard[i].origin,
             destination |-> s.fareBoard[i].destination,
             price |-> s.fareBoard[i].price]

\* the taxi holds an offer other than this one that is allocated to it
HoldsOther(s, t, i) ==
    \E j \in Indices(s.availableFares[t]) \ {i} : s.availableFares[t][j].allocated

\* a taxi that declines every offer
BidOnFareNever(s, t, time, origin, destination, price) == FALSE

\* _bidOnFare
BidOnFare(s, t, time, origin, destination, price) ==
    LET t_to_origin == travelTime(loc[t], origin)
        t_to_dest == travelTime(origin, destination)
        remaining_wait == maxFareWait - (simTime - time)
    IN /\ s.passenger[t] = NoFare /\ loc[t] # Unplaced
       /\ HasNode(origin) /\ HasNode(destination)
       /\ ~(remaining_wait < 0 \/ t_to_origin > remaining_wait)
       /\ ~(s.account[t] <= 0 \/ s.account[t] - t_to_origin <= 0)
       /\ 10 * price >= Max(30, 2 * t_to_dest + t_to_origin)

\* a taxi that goes off duty with its passenger aboard
GoesOffDutyLoaded(acct, aboard) == acct <= 0

\* if self._account <= 0 and self._passenger is None
GoesOffDuty(acct, aboard) == acct <= 0 /\ aboard = NoFare

\* the first steps of clockTick: going off duty, dropping off or replanning
TickStart(s, t) ==
    LET s1 == IF GoesOffDuty(s.account[t], s.passenger[t])
              THEN [s EXCEPT !.onDuty[t] = FALSE, !.offDutyTime[t] = simTime,
                             !.events = Append(@, "offduty")]
              ELSE s
    IN IF s1.path[t] = <<>> /\ s1.passenger[t] # NoFare
       THEN IF loc[t] = s1.passenger[t].destination
            THEN Dropoff(s1, t)
            ELSE [s1 EXCEPT !.path[t] = planPath(map, loc[t],
                                                 s1.passenger[t].destination),
                            !.events = Append(@, "replan")]
       ELSE s1

\* a taxi that takes every offer to be undecided
UndecidedAlways(fare) == TRUE

\* fare[1].bid == 0
Undecided(fare) == fare.bid = 0

\* a taxi that takes itself to be at the origin of every fare
AtOriginAlways(here, origin) == TRUE

\* self._loc.index[0] == origin[0] and self._loc.index[1] == origin[1]
AtOrigin(here, origin) == here = origin

\* one pass of the loop over the offers
TickOffer(s, t, i) ==
    LET fare == s.availableFares[t][i]
    IN IF s.path[t] = <<>> /\ fare.allocated /\ s.passenger[t] = NoFare
       THEN IF AtOrigin(loc[t], fare.origin)
            THEN LET p == PickupFare(s, t)
                 IN {[s EXCEPT
                        !.passenger[t] = p,
                        !.path[t] = IF p = NoFare THEN @
                                    ELSE planPath(map, loc[t], p.destination),
                        !.faresToRemove = @ \cup {i},
                        !.events = IF p = NoFare THEN @
                                   ELSE @ \o <<"pickup", "replan">>]}
            ELSE {[s EXCEPT !.path[t] = planPath(map, loc[t], fare.origin),
                            !.events = Append(@, "plan")]}
       ELSE IF simTime - fare.time > maxFareWait
       THEN {[s EXCEPT !.faresToRemove = @ \cup {i},
                       !.events = Append(@, "discard")]}
       ELSE IF Undecided(fare)
       THEN IF BidOnFare(s, t, fare.time, fare.origin, fare.destination, fare.price)
            THEN {[s2 EXCEPT !.availableFares[t][i].bid = 1,
                             !.events = IF HoldsOther(s, t, i)
                                        THEN Append(@, "busy") ELSE @]
                  : s2 \in Bid(s, fare.origin, t)}
            ELSE {[s EXCEPT !.availableFares[t][i].bid = -1,
                            !.events = Append(@, "decline")]}
       ELSE {s}

RECURSIVE TickOffers(_, _, _)
\* the passes from offer i on
TickOffers(s, t, i) ==
    IF i > Len(availableFares[t]) THEN {s}
    ELSE UNION {TickOffers(s2, t, i + 1) : s2 \in TickOffer(s, t, i)}

\* the removal of the offers that were used up, and the cost of the minute
TickEnd(s, t) ==
    [s EXCEPT !.availableFares[t] = SeqFilterOut(@, s.faresToRemove),
              !.account[t] = @ - 1]

ClockTick(t) ==
    \E s \in {TickEnd(s2, t) : s2 \in TickOffers(TickStart(TickState, t), t, 1)} :
        /\ fareBoard' = s.fareBoard
        /\ bids' = s.bids
        /\ assign_history' = s.assign_history
        /\ revenue' = s.revenue
        /\ availableFares' = s.availableFares
        /\ account' = s.account
        /\ allocTimes' = s.allocTimes
        /\ onDuty' = s.onDuty
        /\ offDutyTime' = s.offDutyTime
        /\ passenger' = s.passenger
        /\ path' = s.path
        /\ phase' = [phase EXCEPT ![t] = 2]
        /\ last' = [NoCall EXCEPT !.op = "clockTick", !.taxi = t,
                                  !.events = s.events]
        /\ UNCHANGED <<simTime, loc, announced, map, planned, unreachable>>

(***************************************************************************)
(* The world's minute: the clock advances, then each taxi on duty is       *)
(* driven and ticked                                                       *)
(***************************************************************************)
InService(t) == onDuty[t] /\ loc[t] # Unplaced

\* the taxi is in service and its clockTick of this minute has run
Ticked(t) == InService(t) /\ phase[t] = 2

\* every taxi on duty has been placed, driven and ticked when the minute ends
RunWorld ==
    /\ \A t \in Taxis : onDuty[t] => Ticked(t)
    /\ simTime' = simTime + 1
    /\ phase' = [t \in Taxis |-> 0]
    /\ UNCHANGED <<fareBoard, bids, assign_history, revenue, availableFares,
                   account, loc, allocTimes, announced, last, map, planned,
                   unreachable, onDuty, offDutyTime, passenger, path>>

\* a world with one taxi in service and fares between the ends of a street
\* of one minute
NextTaxi ==
    \/ \E time \in {0, simTime} : ~onDuty[100] /\ ComeOnDuty(100, time)
    \/ onDuty[100] /\ Drive(100)
    \/ InService(100) /\ phase[100] = 0 /\ DriveOn(100)
    \/ InService(100) /\ phase[100] = 1 /\ ClockTick(100)
    \/ simTime < MaxTime /\ RunWorld
    \/ \E p \in Prices, mw \in ShortWaits :
          /\ announced < MaxOffers
          /\ AnnounceFare(simTime, <<1, 0>>, <<0, 0>>, p, mw)
    \/ NotifyFareCancelled(<<1, 0>>)

SpecTaxi == Init /\ [][NextTaxi]_vars

\* one taxi, brought on duty at the start as RoboUber does, and one fare
\* that is worth its while; the world runs minute after minute
NextRide ==
    \/ simTime = 0 /\ ~onDuty[100] /\ ComeOnDuty(100, 0)
    \/ onDuty[100] /\ Drive(100)
    \/ InService(100) /\ phase[100] = 0 /\ DriveOn(100)
    \/ InService(100) /\ phase[100] = 1 /\ ClockTick(100)
    \/ simTime < MaxTime /\ RunWorld
    \/ \E mw \in MaxWaits \cup ShortWaits :
          /\ announced < 1
          /\ AnnounceFare(simTime, <<1, 0>>, <<0, 0>>, 50, mw)

SpecRide ==
    /\ Init /\ [][NextRide]_vars
    /\ WF_vars(InService(100) /\ phase[100] = 0 /\ DriveOn(100))
    /\ WF_vars(InService(100) /\ phase[100] = 1 /\ ClockTick(100))
    /\ WF_vars(simTime < MaxTime /\ RunWorld)

\* taxis that are brought on duty at any time, on duty already or not, and
\* ticked by the world; no fares
NextDuty ==
    \/ \E t \in Taxis, time \in {0, simTime} : ComeOnDuty(t, time)
    \/ \E t \in Taxis : onDuty[t] /\ Drive(t)
    \/ \E t \in Taxis : InService(t) /\ phase[t] = 0 /\ DriveOn(t)
    \/ \E t \in Taxis : InService(t) /\ phase[t] = 1 /\ ClockTick(t)
    \/ simTime < MaxTime /\ RunWorld

SpecDuty == Init /\ [][NextDuty]_vars

\* a world with one taxi in service and fares of low price, which leave one
\* minute up the street for either end of it and wait two minutes
NextBid ==
    \/ \E time \in {0, simTime} : ~onDuty[100] /\ ComeOnDuty(100, time)
    \/ onDuty[100] /\ Drive(100)
    \/ InService(100) /\ phase[100] = 0 /\ DriveOn(100)
    \/ InService(100) /\ phase[100] = 1 /\ ClockTick(100)
    \/ simTime < MaxTime /\ RunWorld
    \/ \E d \in {<<0, 0>>, <<3, 0>>}, p \in {3, 5}, mw \in ShortWaits :
          /\ announced < MaxOffers
          /\ AnnounceFare(simTime, <<1, 0>>, d, p, mw)

SpecBid == Init /\ [][NextBid]_vars

\* Taxi.addMapNode: the neighbours recorded for the node are replaced by
\* the given ones, each with its straight-line distance
AddMapNode(coords, neighbours) ==
    /\ map' = [n \in DOMAIN map \cup {coords} |->
                 IF n = coords
                 THEN [b \in neighbours |-> hypot(coords[1] - b[1], coords[2] - b[2])]
                 ELSE map[n]]
    /\ UNCHANGED <<simTime, fareBoard, bids, assign_history, revenue,
                   availableFares, account, loc, allocTimes, announced, last,
                   planned, unreachable, taxiVars>>

\* a world whose taxi in service stands at a node that its map may hold or
\* not, and one fare, which waits there or down the street
NextDrive ==
    \/ \E time \in {0, simTime} : ~onDuty[101] /\ ComeOnDuty(101, time)
    \/ onDuty[101] /\ Drive(101)
    \/ InService(101) /\ phase[101] = 0 /\ DriveOn(101)
    \/ InService(101) /\ phase[101] = 1 /\ ClockTick(101)
    \/ simTime < MaxTime /\ RunWorld
    \/ \E f \in {<<<<0, 2>>, <<0, 2>>>>, <<<<0, 0>>, <<1, 0>>>>}, mw \in MaxWaits :
          /\ announced = 0
          /\ AnnounceFare(simTime, f[1], f[2], 50, mw)
    \/ \E nb \in {{}, {<<0, 0>>}} : AddMapNode(<<0, 2>>, nb)

SpecDrive == Init /\ [][NextDrive]_vars

\* fares called at one origin in different minutes, while the taxis are
\* placed and bid there
NextCalls ==
    \/ \E t \in Taxis : Drive(t)
    \/ \E mw \in MaxWaits :
          /\ MayAnnounce(MaxAnnounce, <<3, 0>>, <<3, 4>>)
          /\ AnnounceFare(simTime, <<3, 0>>, <<3, 4>>, 50, mw)
    \/ \E t \in Taxis : HistRoom(MaxHist) /\ ReceiveBid(<<3, 0>>, t)
    \/ simTime < MaxCallTime /\ RunWorld

SpecCalls == Init /\ [][NextCalls]_vars

\* the dispatcher's calls for fares at two origins, all to one destination
\* and paid in full
NextRegistry ==
    \/ \E t \in Taxis : Drive(t)
    \/ \E o \in Origins, mw \in MaxWaits :
          /\ MayAnnounce(MaxAnnounce, o, <<3, 4>>)
          /\ AnnounceFare(simTime, o, <<3, 4>>, 50, mw)
    \/ \E o \in Origins, t \in Taxis : HistRoom(MaxHist) /\ ReceiveBid(o, t)
    \/ \E o \in Origins : NotifyFareCancelled(o)
    \/ \E t \in Taxis, o \in Origins :
          HistRoom(MaxHist) /\ NotifyFareCompleted(t, o, <<3, 4>>, 50)

SpecRegistry == Init /\ [][NextRegistry]_vars

(***************************************************************************)
(* The planner on its own: any map, any pair of its nodes                  *)
(***************************************************************************)
PlanPath(origin, destination) ==
    /\ planned' = [called |-> TRUE, origin |-> origin, destination |-> destination,
                   path |-> planPath(map, origin, destination)]
    /\ UNCHANGED <<simTime, fareBoard, bids, assign_history, revenue,
                   availableFares, account, loc, allocTimes, announced, last, map,
                   unreachable, taxiVars>>

InitPlan == InitDispatch /\ map \in Maps /\ planned = NoPlan /\ unreachable = {}

NextPlan == \E origin \in PlanNodes, destination \in PlanNodes :
               PlanPath(origin, destination)

SpecPlan == InitPlan /\ [][NextPlan]_vars

(***************************************************************************)
(* _planPath statement by statement: the call, each turn of the search     *)
(* loop, the test after it, each turn of the reconstruction loop           *)
(***************************************************************************)
\* a node that is on no map
OffMap == <<2, 0>>

SearchNodes == PlanNodes \cup {OffMap}

\* the maps whose recorded distances are at most MaxStep
SearchMaps ==
    {MapOf(w) : w \in [{e \in PlanNodes \X PlanNodes : e[1] # e[2]} -> 0..MaxStep]}

NoSearch(origin, destination) ==
    [called |-> FALSE, stage |-> "idle", origin |-> origin,
     destination |-> destination, path |-> <<>>, open_heap |-> {},
     came_from |-> <<>>, g_score |-> <<>>, closed |-> {}, node |-> Unplaced]

InitSearch ==
    /\ InitDispatch /\ map \in SearchMaps /\ unreachable = {}
    /\ \E origin \in SearchNodes, destination \in SearchNodes :
          planned = NoSearch(origin, destination)

\* a pop that leaves the tuple on the heap
HeapKeep(heap, top) == heap

\* heapq.heappop(open_heap)
HeapPop(heap, top) == heap \ {top}

\* a reconstruction that returns the path as it was collected
ReversedNot(p) == p

\* path.reverse()
Reversed(p) == [i \in 1..Len(p) |-> p[Len(p) + 1 - i]]

SearchFrame ==
    UNCHANGED <<simTime, fareBoard, bids, assign_history, revenue,
                availableFares, account, loc, allocTimes, announced, last, map,
                unreachable, taxiVars>>

\* the call, up to the first test of the search loop
SearchCall ==
    /\ planned.stage = "idle"
    /\ planned' =
          IF planned.origin = planned.destination
          THEN [planned EXCEPT !.called = TRUE, !.stage = "returned",
                               !.path = AlreadyThere(planned.origin)]
          ELSE IF planned.origin \notin DOMAIN map
                  \/ planned.destination \notin DOMAIN map
          THEN [planned EXCEPT !.called = TRUE, !.stage = "returned"]
          ELSE [planned EXCEPT !.called = TRUE, !.stage = "search",
                               !.open_heap = {<<0, 0, planned.origin>>},
                               !.g_score = [n \in {planned.origin} |-> 0]]
    /\ SearchFrame

\* one turn of while open_heap, or its end
SearchStep ==
    /\ planned.stage = "search"
    /\ planned' =
          IF planned.open_heap = {} THEN [planned EXCEPT !.stage = "found"]
          ELSE LET top == HeapTop(planned.open_heap)
                   rest == HeapPop(planned.open_heap, top)
                   g_curr == top[2]
                   current == top[3]
               IN IF current \in planned.closed
                  THEN [planned EXCEPT !.open_heap = rest]
                  ELSE IF current = planned.destination
                  THEN [planned EXCEPT !.open_heap = rest, !.stage = "found",
                                       !.closed = @ \cup {current}]
                  ELSE LET better ==
                              {nbr \in DOMAIN map[current] :
                                  nbr \notin DOMAIN planned.g_score
                                  \/ g_curr + map[current][nbr] < planned.g_score[nbr]}
                           g1 == [n \in DOMAIN planned.g_score \cup better |->
                                     IF n \in better THEN g_curr + map[current][n]
                                     ELSE planned.g_score[n]]
                       IN [planned EXCEPT
                             !.open_heap = rest \cup
                                 {<<g1[n] + heuristic(n, planned.destination),
                                    g1[n], n>> : n \in better},
                             !.came_from =
                                 [n \in DOMAIN planned.came_from \cup better |->
                                     IF n \in better THEN current
                                     ELSE planned.came_from[n]],
                             !.g_score = g1,
                             !.closed = @ \cup {current}]
    /\ SearchFrame

\* if destination not in came_from: return []; else path = [destination]
SearchEnd ==
    /\ planned.stage = "found"
    /\ planned' =
          IF planned.destination \notin DOMAIN planned.came_from
          THEN [planned EXCEPT !.stage = "returned"]
          ELSE [planned EXCEPT !.stage = "walk", !.node = planned.destination,
                               !.path = <<planned.destination>>]
    /\ SearchFrame

\* one turn of while node != origin, or path.reverse() and the return
WalkStep ==
    /\ planned.stage = "walk"
    /\ planned' =
          IF planned.node # planned.origin
          THEN [planned EXCEPT !.node = planned.came_from[planned.node],
                               !.path = Append(@, planned.came_from[planned.node])]
          ELSE [planned EXCEPT !.stage = "returned", !.path = Reversed(@)]
    /\ SearchFrame

NextSearch == SearchCall \/ SearchStep \/ SearchEnd \/ WalkStep

SpecSearch == InitSearch /\ [][NextSearch]_vars

\* the interpreter runs the next statement of the call
SpecSearchLive == SpecSearch /\ WF_vars(NextSearch)

(***************************************************************************)
(* Properties                                                              *)
(***************************************************************************)
\* the fare with this key, where it is on the board
OnBoard(board, key) == {i \in Indices(board) : FareKey(board[i]) = key}

AllocatedTo(board, key) ==
    LET i == CHOOSE j \in OnBoard(board, key) : TRUE IN board[i].allocated

\* the keys whose allocated field this step sets
NewlyAllocated ==
    {k \in BoardKeys(fareBoard) \cap BoardKeys(fareBoard') :
        AllocatedTo(fareBoard, k) = NoTaxi /\ AllocatedTo(fareBoard', k) # NoTaxi}

\* the bid set of the origin as the allocation pass of this step reads it
BidSetAtPass == BidsAdd(bids, last'.origin, last'.taxi)[last'.origin]

\* the allocations a taxi received within the fairness window
AllocsInWindow(t) ==
    Cardinality({i \in Indices(allocTimes[t]) :
        allocTimes[t][i] >= simTime - assign_window_minutes})

\* C1: while a fare stays on the board, its allocated field, once set, is
\* never cleared, changed to another taxi or set again.
C1_AllocatedAtMostOnce ==
    [][\A k \in BoardKeys(fareBoard) \cap BoardKeys(fareBoard') :
          AllocatedTo(fareBoard, k) # NoTaxi
              => AllocatedTo(fareBoard', k) = AllocatedTo(fareBoard, k)]_vars

\* a bid arrived at an origin whose fare was already allocated, and another
\* taxi is the bidder
C1_Witness ==
    /\ last.op = "receiveBid" /\ last.winner = NoTaxi
    /\ \E i \in Indices(fareBoard) :
          /\ fareBoard[i].origin = last.origin
          /\ fareBoard[i].allocated \notin {NoTaxi, last.taxi}

\* C2: no taxi holds more than one allocated fare on the board at a time.
C2_NoDoubleBooking ==
    \A t \in Taxis :
        Cardinality({i \in Indices(fareBoard) : fareBoard[i].allocated = t}) <= 1

\* C3: a fare's allocated field is set only by an allocation pass, and only
\* to a taxi that is in the bid set of the fare's origin when the pass runs.
C3_WinnerIsBidder ==
    [][\A k \in NewlyAllocated :
          /\ last'.op = "receiveBid"
          /\ k[2] = last'.origin
          /\ AllocatedTo(fareBoard', k) \in BidSetAtPass]_vars

\* a pass gave the fare to a bidder other than the one whose bid started it
C3_Witness ==
    last.op = "receiveBid" /\ last.winner \notin {NoTaxi, last.taxi}

\* C4: the taxi an allocation pass chooses has a finite score that is less
\* than or equal to the score of every other taxi in the origin's bid set.
C4_WinnerHasLeastScore ==
    [][\A k \in NewlyAllocated :
          LET w == AllocatedTo(fareBoard', k)
          IN /\ EtaDefined(w, k[2])
             /\ \A u \in BidSetAtPass :
                   EtaDefined(u, k[2]) =>
                       Score(assign_history, account, w, k[2], simTime)
                           <= Score(assign_history, account, u, k[2], simTime)]_vars

\* a pass chose between two bidders of different scores: the loser, still in
\* the bid set, scores more than the winner did
C4_Witness ==
    /\ last.op = "receiveBid" /\ last.winner # NoTaxi
    /\ \E u \in bids[last.origin] :
          /\ EtaDefined(u, last.origin)
          /\ Score(assign_history, account, u, last.origin, simTime) > last.score

\* C5: when two taxis bid one after the other on the only fare of an origin,
\* the fare ends up with the taxi of the lower score, whichever bid came
\* first.  Here the first bid, by last.winner, has been handled and the second,
\* by a taxi of a lower score, is handled in this step.
C5_LowerScoreWinsEitherOrder ==
    [][(/\ last.op = "receiveBid" /\ last.winner = last.taxi
        /\ bids[last.origin] = {}
        /\ \A i \in Indices(fareBoard) :
              fareBoard[i].origin = last.origin => FareKey(fareBoard[i]) = last.key
        /\ last'.op = "receiveBid" /\ last'.origin = last.origin
        /\ last'.taxi # last.winner
        /\ EtaDefined(last'.taxi, last.origin)
        /\ Score(assign_history, account, last'.taxi, last.origin, simTime)
              < last.score)
       => AllocatedTo(fareBoard', last.key) = last'.taxi]_vars

\* C6: of two taxis in the bid set with the same ETA, the one that received
\* fewer allocations in the window wins: no pass chooses a taxi while a
\* bidder of the same ETA has received fewer.
C6_FewerAllocationsWins ==
    [][\A k \in NewlyAllocated :
          LET w == AllocatedTo(fareBoard', k)
          IN \A u \in BidSetAtPass :
                (EtaDefined(w, k[2]) /\ EtaDefined(u, k[2])
                 /\ EtaMinutes(u, k[2]) = EtaMinutes(w, k[2]))
                    => AllocsInWindow(w) <= AllocsInWindow(u)]_vars

\* C7: the fairness penalty is twice the number of allocations the taxi
\* received in the window, less one when its balance is negative.
C7_PenaltyCountsAllocationsOnce ==
    \A t \in Taxis :
        FairnessPenalty(assign_history, account, t, simTime)
            = 2 * AllocsInWindow(t) - (IF account[t] < 0 THEN 1 ELSE 0)

\* the paths of the map from origin to destination that visit no node twice
SimplePaths(m, origin, destination) ==
    {p \in UNION {[1..n -> DOMAIN m] : n \in 1..Cardinality(DOMAIN m)} :
        /\ p[1] = origin /\ p[Len(p)] = destination
        /\ \A i, j \in 1..Len(p) : i # j => p[i] # p[j]
        /\ \A i \in 1..(Len(p) - 1) : p[i + 1] \in DOMAIN m[p[i]]}

RECURSIVE PathCost(_, _)
PathCost(m, p) ==
    IF Len(p) <= 1 THEN 0
    ELSE m[p[1]][p[2]] + PathCost(m, Tail(p))

\* the path returned is a path of the map of the least total cost
PlannedIsOptimal ==
    LET all == SimplePaths(map, planned.origin, planned.destination)
    IN (planned.called /\ all # {}) =>
          /\ planned.path \in all
          /\ \A p \in all : PathCost(map, planned.path) <= PathCost(map, p)

\* no recorded distance is shorter than the straight line between its ends
AtLeastStraightLine(m) ==
    \A a \in DOMAIN m : \A b \in DOMAIN m[a] :
        m[a][b] >= hypot(a[1] - b[1], a[2] - b[2])

\* C8 as stated: on every map with positive edge distances, for every
\* connected origin and destination, _planPath returns a path of minimum cost.
C8_OptimalOnEveryMap == PlannedIsOptimal

\* C8, amended: on every map whose edge distances are positive and at least
\* the straight-line distance between the edge's ends, for every connected
\* origin and destination, _planPath returns a path of minimum cost.
C8_OptimalWhereHeuristicAdmissible ==
    AtLeastStraightLine(map) => PlannedIsOptimal

\* on such a map the planner returned a path through a third node although
\* the map has a direct edge, which costs more
C8_Witness ==
    /\ planned.called /\ AtLeastStraightLine(map)
    /\ Len(planned.path) = 3
    /\ planned.destination \in DOMAIN map[planned.origin]
    /\ PathCost(map, planned.path) < map[planned.origin][planned.destination]

\* C9: after notifyFareCancelled(O) the board holds no fare with origin O and
\* the bid registry holds no entry for O.
C9_CancelLeavesNoTrace ==
    last.op = "notifyFareCancelled" =>
        /\ \A i \in Indices(fareBoard) : fareBoard[i].origin # last.origin
        /\ last.origin \notin DOMAIN bids
\* two fares to different destinations were purged from the origin at once
C9_Witness ==
    last.op = "notifyFareCancelled" /\ last.purged >= 2

\* C10: announceFare with a key that is already on the board has no effect:
\* the board, that fare's price, max_wait and allocated field included, stays
\* as it was, and no taxi's offer table receives a further advisory.
C10_AnnounceIsIdempotent ==
    [][(last'.op = "announceFare" /\ last'.key \in BoardKeys(fareBoard))
          => /\ fareBoard' = fareBoard
             /\ availableFares' = availableFares
             /\ UNCHANGED <<bids, assign_history, revenue, account>>]_vars

\* the second announcement found its key on the board, on a fare that had
\* been allocated in between
C10_Witness ==
    /\ last.op = "announceFare" /\ ~last.fresh
    /\ \E i \in Indices(fareBoard) :
          FareKey(fareBoard[i]) = last.key /\ fareBoard[i].allocated # NoTaxi

\* this step is a call of notifyFareCompleted: it alone records a timestamp
\* in the fairness memory without an allocation
IsCompletion ==
    /\ last'.op = "notifyFareCompleted"
    /\ assign_history' # assign_history
    /\ allocTimes' = allocTimes

\* C13: the dispatcher's accumulated revenue never decreases, whatever the
\* calls, completions with a zero, negative or missing amount included.
C13_RevenueNeverDecreases == [][revenue' >= revenue]_vars

\* a completion with a negative amount has been reported after revenue had
\* been earned
C13_Witness ==
    last.op = "notifyFareCompleted" /\ last.amount = -9 /\ revenue > 0

\* C14: a completion with an amount >= 0 increases the revenue by exactly
\* one ninth of the amount (revenue is held in ninths), and no other call
\* changes the revenue.
C14_RevenueIsOneNinth ==
    [][/\ (IsCompletion /\ last'.amount # NoPrice /\ last'.amount >= 0)
            => revenue' = revenue + last'.amount
       /\ ~IsCompletion => revenue' = revenue]_vars

\* a completion with a positive amount followed one that had already earned
\* revenue
C14_Witness ==
    last.op = "notifyFareCompleted" /\ last.amount = 18 /\ revenue = 36

\* C15: when notifying the winner of an allocation fails, the allocation is
\* undone and, in the same pass, the same fare goes to the next-best bidder:
\* after a pass that failed while a bidder that can be notified had a finite
\* score, the fare is allocated to a taxi that can be notified.
C15_NextBestBidderGetsFare ==
    (last.op = "receiveBid" /\ last.failed /\ last.reachable)
        => \E i \in Indices(fareBoard) :
              /\ FareKey(fareBoard[i]) = last.key
              /\ fareBoard[i].allocated \in Taxis \ unreachable

\* C16: a malformed fare announcement given to newFare is dropped: it adds
\* no entry to the fare board and sends no advisory to any taxi.
C16_MalformedIsDropped ==
    [][(last'.op = "newFare" /\ last'.malformed)
          => (fareBoard' = fareBoard /\ availableFares' = availableFares)]_vars

\* no bid has occurred on the fare
NoBid(f) ==
    /\ f.allocated = NoTaxi
    /\ \A t \in Taxis : \A j \in Indices(availableFares[t]) :
          (availableFares[t][j].time = f.call_time
              /\ availableFares[t][j].origin = f.origin)
          => availableFares[t][j].bid # 1

C17_CancelClearsOffers ==
    last.op = "notifyFareCancelled"
        => \A t \in Taxis : \A j \in Indices(availableFares[t]) :
              availableFares[t][j].origin # last.origin

\* C18: a clockTick on a taxi whose balance is <= 0 and which carries no
\* passenger leaves the taxi off duty, and a clockTick on a taxi on duty
\* with a passenger aboard leaves it on duty, whatever its balance.
C18_OffDutyOnlyWhenEmpty ==
    [][\A t \in Taxis :
          (phase[t] = 1 /\ phase'[t] = 2)
          => /\ (account[t] <= 0 /\ passenger[t] = NoFare) => ~onDuty'[t]
             /\ (passenger[t] # NoFare /\ onDuty[t]) => onDuty'[t]]_vars

\* the taxi ran out of balance without a passenger, and its tick switched it
\* off duty
C18_Witness ==
    /\ last.op = "clockTick" /\ last.events = <<"offduty">>
    /\ ~onDuty[100] /\ account[100] = -1 /\ offDutyTime[100] = simTime

\* C19: a taxi that clockTick switched off duty at time t is on duty again
\* after a comeOnDuty(time) with time >= t.
C19_ComesBackOnDuty ==
    (/\ last.op = "comeOnDuty"
     /\ offDutyTime[last.taxi] > 0
     /\ last.time >= offDutyTime[last.taxi])
        => onDuty[last.taxi]

\* C20: a taxi submits a bid only while it has no passenger aboard and holds
\* no other offer that is allocated to it: no tick submits a bid while the
\* taxi holds one.
C20_NoBidWhileAllocated ==
    last.op = "clockTick"
        => \A k \in Indices(last.events) : last.events[k] # "busy"

\* the scenario: taxi 100 in service at (0,0) with its full allowance, its
\* tick of this minute still to run, and the fare from (1,0) to (0,0) at
\* price 50 in its offer table, undecided
RideOffered ==
    /\ InService(100) /\ loc[100] = <<0, 0>> /\ account[100] = dailyLoss
    /\ phase[100] # 2
    /\ passenger[100] = NoFare /\ path[100] = <<>>
    /\ \E j \in Indices(availableFares[100]) :
          /\ availableFares[100][j].origin = <<1, 0>>
          /\ availableFares[100][j].bid = 0

\* the tick in which the taxi bid and the dispatcher then allocated it the
\* fare
RideAllocated ==
    /\ last.op = "clockTick" /\ last.events = <<"bid", "allocated">>
    /\ \E i \in Indices(fareBoard) : fareBoard[i].allocated = 100

\* the tick in which the taxi planned its path to the origin
RidePlanned ==
    /\ last.op = "clockTick" /\ last.events = <<"plan">>
    /\ path[100] = <<<<0, 0>>, <<1, 0>>>>

\* the tick in which the taxi picked up and planned again, to the destination
RidePickedUp ==
    /\ last.op = "clockTick" /\ last.events = <<"pickup", "replan">>
    /\ passenger[100].destination = <<0, 0>>
    /\ path[100] = <<<<1, 0>>, <<0, 0>>>>

\* the tick in which the taxi dropped off and was paid: its balance is the
\* balance of a taxi that ticked four times, plus the payment
RidePaid ==
    /\ last.op = "clockTick" /\ last.events = <<"dropoff">>
    /\ passenger[100] = NoFare
    /\ account[100] = dailyLoss - 4 + 50

\* C11: with one taxi on duty and one fare that it can reach and that pays,
\* the taxi bids and is allocated the fare, then plans a path to the origin,
\* then picks up and plans to the destination, then drops off and its
\* balance is increased by the payment: all of it eventually, in this order,
\* when the world keeps running its minutes.
C11_RideCompletes ==
    RideOffered ~> (RideAllocated
                      /\ <>(RidePlanned /\ <>(RidePickedUp /\ <>RidePaid)))

\* the ride has been driven to its end and paid
C11_Witness == RidePaid /\ revenue = 50 /\ simTime = 3

\* this step is a call of comeOnDuty: the last call is one, and no drive,
\* tick or minute of the world took place
IsComeOnDuty ==
    /\ last'.op = "comeOnDuty"
    /\ loc' = loc /\ phase' = phase /\ simTime' = simTime

\* C26: when comeOnDuty brings a taxi on duty, the balance becomes the
\* idle-loss allowance if it was at or below zero, and a positive balance is
\* left unchanged; a call that does not bring the taxi on duty leaves the
\* balance alone.
C26_ResetOnlyWhenBroke ==
    [][IsComeOnDuty =>
          LET t == last'.taxi
          IN IF last'.entered
             THEN /\ onDuty'[t]
                  /\ account[t] <= 0 => account'[t] = dailyLoss
                  /\ account[t] > 0 => account'[t] = account[t]
             ELSE account'[t] = account[t]]_vars

\* a taxi that had ticked its balance down by one was brought on duty, and
\* kept that balance
C26_Witness ==
    /\ last.op = "comeOnDuty" /\ last.entered /\ last.time = 1
    /\ onDuty[last.taxi] /\ account[last.taxi] = dailyLoss - 1

\* the offers of a taxi that are keyed by this time and origin
OffersAt(t, time, origin) ==
    {j \in Indices(availableFares[t]) :
        availableFares[t][j].time = time /\ availableFares[t][j].origin = origin}

\* C29: after announceFare has inserted a new fare, every taxi known to
\* the dispatcher holds one offer keyed by the current time and the fare's
\* origin; it is undecided and unallocated and carries the fare's
\* destination and its price, 0 when the announced price is unknown.
C29_EveryTaxiHoldsTheOffer ==
    (last.op = "announceFare" /\ last.fresh)
        => LET fare == fareBoard[Len(fareBoard)]
           IN /\ FareKey(fare) = last.key
              /\ \A t \in Taxis :
                   \E j \in OffersAt(t, simTime, fare.origin) :
                      /\ OffersAt(t, simTime, fare.origin) = {j}
                      /\ availableFares[t][j].destination = fare.destination
                      /\ availableFares[t][j].price =
                            (IF fare.price = NoPrice THEN 0 ELSE fare.price)
                      /\ availableFares[t][j].bid = 0
                      /\ ~availableFares[t][j].allocated

\* a fare of unknown price was announced at an origin where the taxis held
\* an allocated offer to the other destination
C29_Witness ==
    /\ last.op = "announceFare" /\ last.fresh
    /\ fareBoard[Len(fareBoard)].price = NoPrice
    /\ Len(fareBoard) = 2 /\ fareBoard[1].allocated # NoTaxi
    /\ fareBoard[1].origin = fareBoard[2].origin
    /\ \A t \in Taxis : Len(availableFares[t]) = 1

\* the keys of the fares at an origin that no taxi holds
OpenAt(board, origin) ==
    {k \in BoardKeys(board) : k[2] = origin /\ AllocatedTo(board, k) = NoTaxi}

\* C27: a step allocates at most one fare; a step that allocates one is a
\* receiveBid pass at the fare's origin, after which the winner is no
\* longer in the bid set of that origin and every other fare that was
\* unallocated at the origin is still on the board and unallocated.
C27_OneAllocationPerPass ==
    [][/\ Cardinality(NewlyAllocated) <= 1
       /\ \A k \in NewlyAllocated :
            /\ last'.op = "receiveBid" /\ last'.key = k /\ last'.origin = k[2]
            /\ AllocatedTo(fareBoard', k) = last'.winner
            /\ last'.winner \notin bids'[k[2]]
            /\ OpenAt(fareBoard', k[2]) = OpenAt(fareBoard, k[2]) \ {k}]_vars

\* one of two open fares at the origin was allocated while both taxis had
\* bid: the other fare is still open and the other bidder still recorded
C27_Witness ==
    /\ last.op = "receiveBid" /\ last.winner # NoTaxi /\ ~last.failed
    /\ AllocatedTo(fareBoard, last.key) = last.winner
    /\ OpenAt(fareBoard, last.origin) # {}
    /\ bids[last.origin] = Taxis \ {last.winner}

\* a step of receiveBid: the bid is recorded and one allocation pass runs
IsPass ==
    last'.op = "receiveBid" /\ loc' = loc /\ simTime' = simTime /\ phase' = phase

\* the taxi has a position on the network and the origin is a node of it
HasEta(t, origin) == HasNode(loc[t]) /\ HasNode(origin)

C24_TieGoesToFirstRecorded ==
    [][(/\ IsPass /\ NewlyAllocated # {}
        /\ last'.origin \in DOMAIN bids
        /\ \E a \in Taxis \ {last'.taxi} :
              /\ bids[last'.origin] = {a}
              /\ HasEta(a, last'.origin) /\ HasEta(last'.taxi, last'.origin)
              /\ Score(assign_history, account, a, last'.origin, simTime)
                    = Score(assign_history, account, last'.taxi, last'.origin,
                            simTime))
       => last'.winner \in bids[last'.origin]]_vars

\* the bidders recorded at an origin, none where the registry has no entry
BidsAt(b, origin) == IF origin \in DOMAIN b THEN b[origin] ELSE {}

\* the taxi of the call holds a fare on the board from the origin to the
\* destination of the call
CompletesItsFare ==
    \E i \in Indices(fareBoard) :
        /\ fareBoard[i].origin = last'.key[2]
        /\ fareBoard[i].destination = last'.key[3]
        /\ fareBoard[i].allocated = last'.taxi

\* C30: notifyFareCompleted(taxi, O, D, amount), for a fare from O to D
\* that the taxi holds, takes the fare off the board and leaves every other
\* fare as it is, and the bids recorded at every origin that still has an
\* open fare are unchanged.
C30_CompletionLeavesTheRest ==
    [][(IsCompletion /\ CompletesItsFare) =>
         /\ fareBoard' = PurgeExactBoard(fareBoard, last'.key[2], last'.key[3])
         /\ \A o \in DOMAIN bids :
              OpenAt(fareBoard', o) # {}
                 => BidsAt(bids', o) = BidsAt(bids, o)]_vars

\* C28: when a pass allocates one of several unallocated fares at an
\* origin, no other unallocated fare at that origin was called later than
\* the one allocated.
C28_LatestCallFirst ==
    [][IsPass =>
         \A k \in NewlyAllocated :
            \A other \in OpenAt(fareBoard, k[2]) : other[1] <= k[1]]_vars

\* the fare called in minute 1 was allocated while the fare called at the
\* same origin in minute 0, which stands before it on the board, is open
C28_Witness ==
    /\ last.op = "receiveBid" /\ last.winner # NoTaxi
    /\ Len(fareBoard) = 2
    /\ fareBoard[1].call_time = 0 /\ fareBoard[1].allocated = NoTaxi
    /\ fareBoard[2].call_time = 1 /\ fareBoard[2].allocated = last.winner
    /\ fareBoard[1].origin = fareBoard[2].origin
    /\ last.key = FareKey(fareBoard[2])

\* the destinations of the offers a taxi holds for an origin
OfferedFrom(offers, origin) ==
    {offers[j].destination : j \in {i \in Indices(offers) : offers[i].origin = origin}}

\* C23: when a fare is advised to a taxi that holds an offer of the same
\* minute for the same origin and another destination, the taxi then holds
\* both offers, one for each destination.
C23_BothOffersHeld ==
    [][(last'.op = "announceFare" /\ last'.fresh /\ fareBoard' # fareBoard)
       => \A t \in Taxis :
            \A j \in OffersAt(t, simTime, last'.origin) :
               {availableFares[t][j].destination, last'.key[3]}
                   \subseteq OfferedFrom(availableFares'[t], last'.origin)]_vars

\* a step of clockTick of the taxi named in the call
IsTick == last'.op = "clockTick" /\ phase[last'.taxi] = 1 /\ phase'[last'.taxi] = 2

\* the offers of the taxi that the tick has bid for
NewlyBid(t) ==
    {j \in Indices(availableFares[t]) :
        /\ availableFares[t][j].bid = 0
        /\ \E i \in Indices(availableFares'[t]) :
              /\ availableFares'[t][i].time = availableFares[t][j].time
              /\ availableFares'[t][i].origin = availableFares[t][j].origin
              /\ availableFares'[t][i].bid = 1}

\* C21: a taxi bids for a fare only if the price exceeds the minutes to the
\* origin plus the minutes from there to the destination, each costing the
\* taxi 1, so that the projected profit is positive before any margin.
C21_BidsOnlyAtAProfit ==
    [][IsTick =>
         \A j \in NewlyBid(last'.taxi) :
            LET fare == availableFares[last'.taxi][j]
            IN fare.price - (travelTime(loc[last'.taxi], fare.origin)
                             + travelTime(fare.origin, fare.destination)) > 0]_vars

\* the minutes left before the fares on the board that an offer stands for
\* give up waiting
WaitLeft(fare) ==
    {fareBoard[i].call_time + fareBoard[i].max_wait - simTime :
        i \in {k \in Indices(fareBoard) :
                  /\ fareBoard[k].origin = fare.origin
                  /\ fareBoard[k].destination = fare.destination}}

\* C22: a taxi bids for a fare only if the minutes left before the fare's
\* wait deadline exceed the minutes to the origin: a fare it would reach
\* exactly at the deadline, or after it, is declined.
C22_BidsOnlyWithTimeToSpare ==
    [][IsTick =>
         \A j \in NewlyBid(last'.taxi) :
            LET fare == availableFares[last'.taxi][j]
            IN \A left \in WaitLeft(fare) :
                  left > travelTime(loc[last'.taxi], fare.origin)]_vars

\* the offers of a taxi that stand for a fare on the board whose wait has
\* run out: more than the fare's max_wait minutes have passed since its call
Overdue(t) ==
    {j \in Indices(availableFares[t]) :
        \E i \in Indices(fareBoard) :
            /\ fareBoard[i].origin = availableFares[t][j].origin
            /\ fareBoard[i].destination = availableFares[t][j].destination
            /\ fareBoard[i].call_time = availableFares[t][j].time
            /\ simTime - fareBoard[i].call_time > fareBoard[i].max_wait}

\* C31: a clockTick of a taxi that holds an offer whose fare has waited more
\* than its max_wait minutes since its call removes that offer from the
\* taxi's table.
C31_OverdueOfferIsDiscarded ==
    [][IsTick =>
         \A j \in Overdue(last'.taxi) :
            \A i \in Indices(availableFares'[last'.taxi]) :
               ~(/\ availableFares'[last'.taxi][i].time
                       = availableFares[last'.taxi][j].time
                 /\ availableFares'[last'.taxi][i].origin
                       = availableFares[last'.taxi][j].origin)]_vars

\* the call of _planPath has returned
Returned == planned.stage = "returned"

\* the statement-by-statement planner returns what planPath computes
SearchAgrees ==
    Returned => planned.path = planPath(map, planned.origin, planned.destination)

\* the map has no path from the origin of the call to its destination
NoRoute ==
    \/ planned.origin \notin DOMAIN map
    \/ planned.destination \notin DOMAIN map
    \/ SimplePaths(map, planned.origin, planned.destination) = {}

\* C32: _planPath returns the path [origin] when origin equals destination,
\* and the empty path when the map has no path from origin to another
\* destination, also when one of the two is not a node of the map; in
\* neither case does the call enter the reconstruction through came_from.
C32_TrivialAndEmptyPaths ==
    /\ (planned.origin = planned.destination \/ NoRoute) => planned.stage # "walk"
    /\ Returned =>
         /\ planned.origin = planned.destination
               => planned.path = <<planned.origin>>
         /\ (planned.origin # planned.destination /\ NoRoute)
               => planned.path = <<>>

\* the search closed two nodes of the map without meeting the destination,
\* which is a node of the map, and the call returned the empty path
C32_Witness ==
    /\ Returned /\ planned.path = <<>>
    /\ planned.destination \in DOMAIN map
    /\ Cardinality(planned.closed) = 2

\* C38: every non-empty path that _planPath returns starts at the origin,
\* ends at the destination, visits no node twice, and goes from each node
\* to the next along an edge of the map.
C38_ReturnedPathIsAPath ==
    (Returned /\ planned.path # <<>>) =>
        LET p == planned.path
        IN /\ p[1] = planned.origin /\ p[Len(p)] = planned.destination
           /\ \A i, j \in 1..Len(p) : i # j => p[i] # p[j]
           /\ \A i \in 1..(Len(p) - 1) :
                 p[i] \in DOMAIN map /\ p[i + 1] \in DOMAIN map[p[i]]

\* the call returned a path through a third node on a map that has no edge
\* back from the destination to that node
C38_Witness ==
    /\ Returned /\ Len(planned.path) = 3
    /\ planned.path[2] \notin DOMAIN map[planned.path[3]]

\* C39: every call of _planPath returns: the search loop ends, also when
\* the destination cannot be reached, and the reconstruction through
\* came_from reaches the origin.
C39_PlanPathTerminates == <>Returned

\* the search ran until the heap was empty, having closed every node it
\* could reach, and the call returned without a path
C39_Witness ==
    /\ Returned /\ planned.open_heap = {} /\ planned.path = <<>>
    /\ Cardinality(planned.closed) = 2
    /\ planned.destination \in DOMAIN map /\ planned.destination \notin planned.closed

\* a step of drive of taxi t, which has a path
IsDriveOn(t) ==
    phase[t] = 0 /\ phase'[t] # 0 /\ simTime' = simTime /\ path[t] # <<>>

\* the path of taxi t once the node it stands at has been taken off its head
Ahead(t) == IF Head(path[t]) = loc[t] THEN Tail(path[t]) ELSE path[t]

\* C33: when drive has to advance a taxi along a non-empty path and the
\* node the taxi stands at is not in its map, or the next node of the path
\* is not a neighbour of that node in its map, the call ends in an
\* IndexError and the taxi is given no next location.
C33_DriveFaultsOffTheMap ==
    [][\A t \in Taxis :
          (/\ IsDriveOn(t)
           /\ \/ loc[t] \notin DOMAIN map
              \/ (Ahead(t) # <<>> /\ Head(Ahead(t)) \notin DOMAIN map[loc[t]]))
          => /\ last'.op = "drive" /\ last'.taxi = t
             /\ last'.events = <<"IndexError">>
             /\ loc' = loc]_vars

\* the taxi stands at a node of its map from which the map no longer leads
\* to the next node of its path, and its drive has ended in the fault
C33_Witness ==
    /\ last.op = "drive" /\ last.failed
    /\ loc[last.taxi] \in DOMAIN map
    /\ path[last.taxi] # <<>>
    /\ Head(path[last.taxi]) \notin DOMAIN map[loc[last.taxi]]

\* the offers of taxi t that are marked allocated
Held(t) == {j \in Indices(availableFares[t]) : availableFares[t][j].allocated}

\* C34: a passenger comes aboard a taxi only in a clockTick that the taxi
\* began with an empty path, at the origin of an offer allocated to it, and
\* with no passenger or with one that it set down in that tick; a tick
\* that the taxi begins with an empty path and no passenger, holding
\* allocated offers for other origins only, takes no passenger aboard,
\* keeps those offers and plans a path to the origin of one of them.
C34_PickupOnlyAtTheOrigin ==
    [][\A t \in Taxis :
          /\ (passenger'[t] # NoFare /\ passenger'[t] # passenger[t])
                => /\ IsTick /\ last'.taxi = t /\ path[t] = <<>>
                   /\ \E j \in Held(t) : availableFares[t][j].origin = loc[t]
                   /\ \/ passenger[t] = NoFare
                      \/ \E k \in Indices(last'.events) : last'.events[k] = "dropoff"
          /\ (/\ IsTick /\ last'.taxi = t /\ path[t] = <<>> /\ passenger[t] = NoFare
              /\ Held(t) # {}
              /\ \A j \in Held(t) : availableFares[t][j].origin # loc[t])
                => /\ passenger'[t] = NoFare
                   /\ \A j \in Held(t) :
                         \E i \in Indices(availableFares'[t]) :
                            availableFares'[t][i] = availableFares[t][j]
                   /\ \E j \in Held(t) :
                         path'[t] = planPath(map, loc[t], availableFares[t][j].origin)]_vars

\* the taxi stood at the origin of its allocated offer with an empty path,
\* and its tick took the passenger aboard and planned the way on
C34_Witness ==
    /\ last.op = "clockTick"
    /\ \E k \in Indices(last.events) : last.events[k] = "pickup"
    /\ passenger[last.taxi] # NoFare
    /\ loc[last.taxi] = passenger[last.taxi].origin
    /\ path[last.taxi] # <<>>

\* C35: whenever the board records a fare as allocated to a taxi that has
\* not picked it up, the taxi's table holds an offer with the fare's origin
\* and destination that is marked allocated.
C35_TaxiKnowsItsAllocations ==
    \A i \in Indices(fareBoard) :
        LET fare == fareBoard[i]
            t == fare.allocated
        IN (/\ t # NoTaxi
            /\ ~(/\ passenger[t] # NoFare
                  /\ passenger[t].origin = fare.origin
                  /\ passenger[t].destination = fare.destination))
           => \E j \in Held(t) :
                 /\ availableFares[t][j].origin = fare.origin
                 /\ availableFares[t][j].destination = fare.destination

\* C36: a fare is allocated to a taxi only if the taxi has bid for that
\* fare: when a step allocates a fare, the winner's table holds the offer
\* for that fare, of its call time, origin and destination, with bid = 1.
C36_AllocatedOnlyOnItsOwnBid ==
    [][\A k \in NewlyAllocated :
          LET t == AllocatedTo(fareBoard', k)
          IN \E j \in Indices(availableFares'[t]) :
                /\ availableFares'[t][j].time = k[1]
                /\ availableFares'[t][j].origin = k[2]
                /\ availableFares'[t][j].destination = k[3]
                /\ availableFares'[t][j].bid = 1]_vars

\* C37: the bid decision on an offer is made at most once. An offer that
\* stays in a taxi's table, and is not replaced by a new advice for its
\* minute and origin, keeps its bid field, except that a clockTick of the
\* taxi may take it from 0 to 1 or to -1; and a tick transmits as many bids
\* as it takes offers from 0 to 1.
C37_BidDecidedOnce ==
    [][/\ \A t \in Taxis :
            \A j \in Indices(availableFares[t]), i \in Indices(availableFares'[t]) :
               (/\ availableFares'[t][i].time = availableFares[t][j].time
                /\ availableFares'[t][i].origin = availableFares[t][j].origin
                /\ ~(/\ last'.op = "announceFare" /\ last'.fresh
                      /\ fareBoard' # fareBoard
                      /\ availableFares[t][j].time = simTime
                      /\ availableFares[t][j].origin = last'.origin))
               => \/ availableFares'[t][i].bid = availableFares[t][j].bid
                  \/ /\ availableFares[t][j].bid = 0
                     /\ availableFares'[t][i].bid \in {1, -1}
                     /\ IsTick /\ last'.taxi = t
       /\ IsTick =>
            Cardinality({k \in Indices(last'.events) : last'.events[k] = "bid"})
               = Cardinality(NewlyBid(last'.taxi))]_vars

\* a tick of the taxi found only an offer that it had declined before, and
\* decided and transmitted nothing
C37_Witness ==
    /\ last.op = "clockTick" /\ last.events = <<>>
    /\ \E j \in Indices(availableFares[last.taxi]) :
          /\ availableFares[last.taxi][j].bid = -1
          /\ availableFares[last.taxi][j].time < simTime

\* C40: a taxi's membership of an origin's bid set changes only in a
\* receiveBid at that origin, which adds the bidder and removes the taxi it
\* allocates a fare to, and in a cancellation or completion at that origin,
\* which removes every member; announceFare, and calls for another origin,
\* change no membership.
C40_BidSetFrame ==
    [][\A o \in Origins, t \in Taxis :
          (t \in BidsAt(bids, o)) # (t \in BidsAt(bids', o))
          => \/ /\ last'.op = "receiveBid" /\ last'.origin = o
                /\ \/ t = last'.taxi /\ t \notin BidsAt(bids, o)
                   \/ t = last'.winner /\ ~last'.failed /\ t \notin BidsAt(bids', o)
             \/ /\ last'.op \in {"notifyFareCancelled", "notifyFareCompleted"}
                /\ last'.origin = o
                /\ t \in BidsAt(bids, o)]_vars

\* a receiveBid allocated a fare to one bidder at its origin and removed it,
\* while another bidder remains at that origin and one at the other origin
C40_Witness ==
    /\ last.op = "receiveBid" /\ last.winner \in Taxis /\ ~last.failed
    /\ last.winner \notin BidsAt(bids, last.origin)
    /\ BidsAt(bids, last.origin) # {}
    /\ \E o \in Origins \ {last.origin} : BidsAt(bids, o) # {}

====
